---------------------------- MODULE Spec2Model ----------------------------
(***************************************************************************)
(* A model of legal_patterns.py: the two lookup tables, the compiled       *)
(* patterns used by the helper functions, and the helper functions         *)
(* themselves.  A text is a sequence of one-character strings.  Every      *)
(* helper is a pure function; a caller holds an input text, calls the      *)
(* helper (pc: "ready" -> "done") and, for the helpers that map text to    *)
(* text, may pass the result back in (pc: "done" -> "again").              *)
(***************************************************************************)
EXTENDS Integers, Sequences, FiniteSets, TLC

VARIABLES input, output, again, pc

vars == <<input, output, again, pc>>

(***************************************************************************)
(* Texts and character classes                                             *)
(***************************************************************************)

\* A string literal as a sequence of characters.
Chars(s) == [i \in 1..Len(s) |-> SubSeq(s, i, i)]

UpperLetters == Chars("ABCDEFGHIJKLMNOPQRSTUVWXYZ")
LowerLetters == Chars("abcdefghijklmnopqrstuvwxyz")
Digits == Chars("0123456789")

Range(f) == {f[i] : i \in DOMAIN f}

\* [A-Z]
IsUpper(c) == c \in Range(UpperLetters)
\* [A-Za-z]
IsAlpha(c) == c \in Range(UpperLetters) \cup Range(LowerLetters)
\* \d
IsDigit(c) == c \in Range(Digits)
\* \s, and the characters str.split() and str.strip() treat as whitespace
IsSpace(c) == c \in {" ", "\t", "\n", "\r", "\f"}
\* \w
IsWordChar(c) == IsAlpha(c) \/ IsDigit(c) \/ c = "_"

\* \b at offset i of s (between s[i] and s[i+1]; 0 and Len(s) are the ends)
WordBoundary(s, i) ==
    ((i >= 1 /\ i <= Len(s)) /\ IsWordChar(s[i]))
        # ((i + 1 >= 1 /\ i + 1 <= Len(s)) /\ IsWordChar(s[i + 1]))

\* the literal lit occurs in s starting right after offset i
LiteralAt(s, i, lit) ==
    /\ i >= 0
    /\ i + Len(lit) <= Len(s)
    /\ SubSeq(s, i + 1, i + Len(lit)) = lit

\* Python's  lit in s
Contains(s, lit) == \E i \in 0..Len(s) : LiteralAt(s, i, lit)

\* Python's  s.find(lit): the least offset at which lit occurs, or -1
Find(s, lit) ==
    IF Contains(s, lit)
    THEN CHOOSE i \in 0..Len(s) :
            /\ LiteralAt(s, i, lit)
            /\ \A j \in 0..(i - 1) : ~LiteralAt(s, j, lit)
    ELSE -1

\* offset reached from offset i by skipping a maximal run of whitespace
SkipSpaces(s, i) ==
    CHOOSE j \in i..Len(s) :
        /\ \A k \in (i + 1)..j : IsSpace(s[k])
        /\ (j = Len(s) \/ ~IsSpace(s[j + 1]))

\* Python's  s.strip()
Strip(s) ==
    LET keep == {k \in 1..Len(s) : ~IsSpace(s[k])}
    IN  IF keep = {} THEN <<>>
        ELSE SubSeq(s, CHOOSE a \in keep : \A k \in keep : a <= k,
                       CHOOSE b \in keep : \A k \in keep : b >= k)

\* all concatenations of at most n of the given pieces
RECURSIVE Texts(_, _)
Texts(pieces, n) ==
    IF n = 0 THEN {<<>>}
    ELSE LET shorter == Texts(pieces, n - 1)
         IN  shorter \cup {t \o p : t \in shorter, p \in pieces}

(***************************************************************************)
(* is_legal_entity                                                         *)
(***************************************************************************)

\* the alternatives of LegalPatterns.CORPORATION, in pattern order
CorporationSuffixes ==
    << Chars("Inc."), Chars("LLC"), Chars("L.L.C."), Chars("Corp."),
       Chars("Corporation"), Chars("Company"), Chars("Co.") >>

\* CORPORATION.search(text) finds a match:
\* \b(?:Inc\.|LLC|L\.L\.C\.|Corp\.|Corporation|Company|Co\.)\b
CORPORATION(text) ==
    \E i \in 0..Len(text) :
        /\ WordBoundary(text, i)
        /\ \E a \in DOMAIN CorporationSuffixes :
              /\ LiteralAt(text, i, CorporationSuffixes[a])
              /\ WordBoundary(text, i + Len(CorporationSuffixes[a]))

is_legal_entity(text) == CORPORATION(text)

MaxEntityPieces == 3

EntityPieces ==
    { Chars("Acme"), Chars(" "), Chars("x"), Chars(","), Chars("Inc."),
      Chars("LLC"), Chars("Corp."), Chars("Co."), Chars("Company") }

EntityExamples ==
    { Chars("Acme Corp. filed suit"), Chars("no entity mentioned"),
      Chars("Acme L.L.C."), Chars("the Corporation.") }

InitEntity ==
    /\ input \in Texts(EntityPieces, MaxEntityPieces) \cup EntityExamples
    /\ output = <<>>
    /\ again = <<>>
    /\ pc = "ready"

CallIsLegalEntity ==
    /\ pc = "ready"
    /\ output' = is_legal_entity(input)
    /\ pc' = "done"
    /\ UNCHANGED <<input, again>>

NextEntity == CallIsLegalEntity

SpecEntity == InitEntity /\ [][NextEntity]_vars

\* the characters the claim counts as delimiters of a token
Punctuation == Range(Chars(".,;:!?()'-"))

IsDelimiter(c) == IsSpace(c) \/ c \in Punctuation

\* one of the seven suffixes stands in the text as a whole token
HasWholeSuffixToken(text) ==
    \E a \in DOMAIN CorporationSuffixes :
        \E i \in 0..Len(text) :
            /\ LiteralAt(text, i, CorporationSuffixes[a])
            /\ (i = 0 \/ IsDelimiter(text[i]))
            /\ LET e == i + Len(CorporationSuffixes[a])
               IN  e = Len(text) \/ IsDelimiter(text[e + 1])

\* C1: is_legal_entity(text) is true exactly when the text holds one of the
\* seven corporate suffixes as a whole token (delimited by whitespace,
\* punctuation or the ends of the text); "Acme Corp. filed suit" gives true
\* and "no entity mentioned" gives false.
C1_WholeTokenIff ==
    pc = "done" =>
        /\ output = HasWholeSuffixToken(input)
        /\ (input = Chars("Acme Corp. filed suit") => output = TRUE)
        /\ (input = Chars("no entity mentioned") => output = FALSE)

(***************************************************************************)
(* extract_party_names                                                     *)
(***************************************************************************)

\* [A-Za-z\s,\.]
IsNameChar(c) == IsAlpha(c) \/ IsSpace(c) \/ c \in {",", "."}

\* [A-Z][A-Za-z\s,\.]+? can match s from offset b up to offset e
NameSpan(s, b, e) ==
    /\ b + 2 <= e
    /\ e <= Len(s)
    /\ IsUpper(s[b + 1])
    /\ \A k \in (b + 2)..e : IsNameChar(s[k])

\* SeparatorEnd with \s*v\.\s* in place of \s+v\.\s+
SeparatorEndOptionalSpace(s, e) ==
    LET a == SkipSpaces(s, e)
    IN  IF LiteralAt(s, a, <<"v", ".">>) THEN SkipSpaces(s, a + 2) ELSE -1

\* \s+v\.\s+ from offset e: the offset after it, or -1 when it cannot match.
\* Each \s+ is followed by a character that is no whitespace, so it can
\* only stop at the end of its run of whitespace.
SeparatorEnd(s, e) ==
    LET a == SkipSpaces(s, e)
    IN  IF a > e /\ LiteralAt(s, a, <<"v", ".">>)
        THEN LET b == SkipSpaces(s, a + 2)
             IN  IF b > a + 2 THEN b ELSE -1
        ELSE -1

\* (?:\s*,|$) at offset f; $ also matches before a newline that ends the text
NameTail(s, f) ==
    \/ \E k \in f..(Len(s) - 1) :
          /\ \A j \in (f + 1)..k : IsSpace(s[j])
          /\ s[k + 1] = ","
    \/ f = Len(s)
    \/ (f = Len(s) - 1 /\ s[Len(s)] = "\n")

\* the ends of group 1 from which the rest of PARTY_NAME matches
Group1Ends(s) ==
    {e \in 2..Len(s) :
        /\ NameSpan(s, 0, e)
        /\ SeparatorEnd(s, e) # -1
        /\ \E f \in 2..Len(s) :
              NameSpan(s, SeparatorEnd(s, e), f) /\ NameTail(s, f)}

Least(S) == CHOOSE x \in S : \A y \in S : x <= y

\* PARTY_NAME.match(case_name): <<>> when there is no match, else the two
\* groups.  Both groups are lazy: the matcher keeps the shortest group 1 from
\* which the rest matches, and then the shortest group 2.
\* ^([A-Z][A-Za-z\s,\.]+?)\s+v\.\s+([A-Z][A-Za-z\s,\.]+?)(?:\s*,|$)
PARTY_NAME(case_name) ==
    IF Group1Ends(case_name) = {} THEN <<>>
    ELSE LET e == Least(Group1Ends(case_name))
             b == SeparatorEnd(case_name, e)
             f == Least({g \in 2..Len(case_name) :
                            NameSpan(case_name, b, g) /\ NameTail(case_name, g)})
         IN  << SubSeq(case_name, 1, e), SubSeq(case_name, b + 1, f) >>

VSeparator == Chars(" v. ")

\* case_name.split(" v. ", 1)
SplitOnV(case_name) ==
    LET i == Find(case_name, VSeparator)
    IN  << SubSeq(case_name, 1, i),
           SubSeq(case_name, i + Len(VSeparator) + 1, Len(case_name)) >>

extract_party_names(case_name) ==
    LET match == PARTY_NAME(case_name)
    IN  IF match # <<>>
        THEN << Strip(match[1]), Strip(match[2]) >>
        ELSE IF Contains(case_name, VSeparator)
             THEN LET parts == SplitOnV(case_name)
                  IN  << Strip(parts[1]), Strip(parts[2]) >>
             ELSE << case_name, <<>> >>

MaxPartyPieces == 4

PartyPieces ==
    { Chars("Al"), Chars("b"), Chars("Cy"), Chars(" v. "), Chars("\tv.\t"),
      Chars(" "), Chars(","), Chars("v."), Chars("1"), Chars("\n") }

PartyExamples ==
    { Chars("Smith v. Jones"), Chars("no separator here"),
      Chars("Al v. b v. Cy"), Chars("Al\tv. Cy v. Al") }

InitParty ==
    /\ input \in Texts(PartyPieces, MaxPartyPieces) \cup PartyExamples
    /\ output = <<>>
    /\ again = <<>>
    /\ pc = "ready"

CallExtractPartyNames ==
    /\ pc = "ready"
    /\ output' = extract_party_names(input)
    /\ pc' = "done"
    /\ UNCHANGED <<input, again>>

NextParty == CallExtractPartyNames

SpecParty == InitParty /\ [][NextParty]_vars

\* the text holds "v." with a whitespace character on each side
HasSpacedV(s) ==
    \E i \in 1..(Len(s) - 3) :
        /\ IsSpace(s[i])
        /\ s[i + 1] = "v"
        /\ s[i + 2] = "."
        /\ IsSpace(s[i + 3])

\* C2 as stated: an input without the four characters " v. " comes back
\* whole as the plaintiff, with an empty defendant.
C2_NoLiteralSeparator ==
    (pc = "done" /\ ~Contains(input, VSeparator)) =>
        output = << input, <<>> >>

\* C2 as amended: an input that nowhere holds "v." between two whitespace
\* characters comes back whole as the plaintiff, with an empty defendant.
C2_NoSpacedV ==
    (pc = "done" /\ ~HasSpacedV(input)) =>
        output = << input, <<>> >>

C2_Witness ==
    /\ pc = "done"
    /\ ~HasSpacedV(input)
    /\ Contains(input, <<"v", ".">>)
    /\ IsUpper(input[1])
    /\ output = << input, <<>> >>

\* C3: when the input holds " v. ", the plaintiff is the stripped text before
\* the first " v. ", whichever strategy produced it, and so holds no " v. ".
C3_FirstOccurrenceWins ==
    (pc = "done" /\ Contains(input, VSeparator)) =>
        /\ output[1] = Strip(SubSeq(input, 1, Find(input, VSeparator)))
        /\ ~Contains(output[1], VSeparator)

(***************************************************************************)
(* extract_document_type                                                   *)
(***************************************************************************)

\* the table, in insertion order: label and keywords of each entry
DOCUMENT_TYPES ==
    << [label |-> "contract",
        keywords |-> << Chars("agreement"), Chars("contract"), Chars("covenant"),
                        Chars("deed"), Chars("lease") >>],
       [label |-> "motion",
        keywords |-> << Chars("motion"), Chars("petition"), Chars("application"),
                        Chars("request") >>],
       [label |-> "brief",
        keywords |-> << Chars("brief"), Chars("memorandum"), Chars("memo") >>],
       [label |-> "complaint",
        keywords |-> << Chars("complaint"), Chars("petition"), Chars("claim") >>],
       [label |-> "order",
        keywords |-> << Chars("order"), Chars("judgment"), Chars("decree"),
                        Chars("ruling"), Chars("decision") >>],
       [label |-> "opinion",
        keywords |-> << Chars("opinion"), Chars("decision"), Chars("judgment") >>],
       [label |-> "statute",
        keywords |-> << Chars("statute"), Chars("act"), Chars("code"),
                        Chars("law") >>],
       [label |-> "regulation",
        keywords |-> << Chars("regulation"), Chars("rule"), Chars("cfr"),
                        Chars("administrative") >>] >>

\* str.lower() of one character
LowerChar(c) ==
    IF IsUpper(c)
    THEN LowerLetters[CHOOSE i \in DOMAIN UpperLetters : UpperLetters[i] = c]
    ELSE c

\* str.lower()
Lower(text) == [i \in DOMAIN text |-> LowerChar(text[i])]

\* the inner loop from keyword k on: some keyword is in text_lower
RECURSIVE AnyKeyword(_, _, _)
AnyKeyword(text_lower, keywords, k) ==
    IF k > Len(keywords) THEN FALSE
    ELSE IF Contains(text_lower, keywords[k]) THEN TRUE
    ELSE AnyKeyword(text_lower, keywords, k + 1)

\* the outer loop from entry t on
RECURSIVE ScanDocumentTypes(_, _)
ScanDocumentTypes(text_lower, t) ==
    IF t > Len(DOCUMENT_TYPES) THEN "unknown"
    ELSE IF AnyKeyword(text_lower, DOCUMENT_TYPES[t].keywords, 1)
         THEN DOCUMENT_TYPES[t].label
         ELSE ScanDocumentTypes(text_lower, t + 1)

\* extract_document_type that searches the text as given
ExtractDocumentTypeCaseSensitive(text) == ScanDocumentTypes(text, 1)

extract_document_type(text) == ScanDocumentTypes(Lower(text), 1)

MaxDocPieces == 2

DocPieces ==
    { Chars("petition"), Chars("DECISION"), Chars("Judgment"), Chars("opinion"),
      Chars("contr"), Chars("act"), Chars("MEMO"), Chars("claim"),
      Chars("Rul"), Chars("e"), Chars("ing"), Chars(" "), Chars("x"),
      Chars("cfr"), Chars("p") }

DocExamples ==
    { Chars("MOTION to dismiss"), Chars("motion to dismiss"),
      Chars("Lease Agreement"), Chars("A Statute") }

InitDoc ==
    /\ input \in Texts(DocPieces, MaxDocPieces) \cup DocExamples
    /\ output = <<>>
    /\ again = <<>>
    /\ pc = "ready"

CallExtractDocumentType ==
    /\ pc = "ready"
    /\ output' = extract_document_type(input)
    /\ pc' = "done"
    /\ UNCHANGED <<input, again>>

NextDoc == CallExtractDocumentType

SpecDoc == InitDoc /\ [][NextDoc]_vars

\* the entries of the table with a keyword that occurs in the text
MatchingTypes(text) ==
    {t \in DOMAIN DOCUMENT_TYPES :
        \E k \in DOMAIN DOCUMENT_TYPES[t].keywords :
            Contains(text, DOCUMENT_TYPES[t].keywords[k])}

UpperChar(c) ==
    IF c \in Range(LowerLetters)
    THEN UpperLetters[CHOOSE i \in DOMAIN LowerLetters : LowerLetters[i] = c]
    ELSE c

\* re-casings of a text: all upper, all lower, every case swapped, and the
\* case of a single letter swapped
SwapChar(c) == IF IsUpper(c) THEN LowerChar(c) ELSE UpperChar(c)

Recasings(text) ==
    { [i \in DOMAIN text |-> UpperChar(text[i])],
      [i \in DOMAIN text |-> LowerChar(text[i])],
      [i \in DOMAIN text |-> SwapChar(text[i])] }
    \cup { [text EXCEPT ![j] = SwapChar(text[j])] : j \in DOMAIN text }

\* C4: the result is the label of the first table entry, in insertion order,
\* one of whose keywords occurs in the lower-cased text, and "unknown" exactly
\* when no keyword occurs (so for the empty text); a re-casing of the text
\* gives the same result.
C4_FirstMatchingType ==
    pc = "done" =>
        LET hits == MatchingTypes(Lower(input))
        IN  /\ hits # {} => output = DOCUMENT_TYPES[Least(hits)].label
            /\ hits = {} <=> output = "unknown"
            /\ input = <<>> => output = "unknown"
            /\ \A r \in Recasings(input) : extract_document_type(r) = output

\* a later entry shares the keyword found, and a text in capitals
C4_Witness ==
    /\ pc = "done"
    /\ Cardinality(MatchingTypes(Lower(input))) >= 2
    /\ MatchingTypes(input) = {}
    /\ output = "order"

(***************************************************************************)
(* normalize_court_name                                                    *)
(***************************************************************************)

\* the table: abbreviation and full name of each entry
COURT_ABBREVIATIONS ==
    <<
       << Chars("S. Ct."), Chars("Supreme Court") >>,
       << Chars("U.S."), Chars("United States Supreme Court") >>,
       << Chars("1st Cir."), Chars("First Circuit") >>,
       << Chars("2d Cir."), Chars("Second Circuit") >>,
       << Chars("3d Cir."), Chars("Third Circuit") >>,
       << Chars("4th Cir."), Chars("Fourth Circuit") >>,
       << Chars("5th Cir."), Chars("Fifth Circuit") >>,
       << Chars("6th Cir."), Chars("Sixth Circuit") >>,
       << Chars("7th Cir."), Chars("Seventh Circuit") >>,
       << Chars("8th Cir."), Chars("Eighth Circuit") >>,
       << Chars("9th Cir."), Chars("Ninth Circuit") >>,
       << Chars("10th Cir."), Chars("Tenth Circuit") >>,
       << Chars("11th Cir."), Chars("Eleventh Circuit") >>,
       << Chars("D.C. Cir."), Chars("D.C. Circuit") >>,
       << Chars("Fed. Cir."), Chars("Federal Circuit") >>,
       << Chars("D."), Chars("District") >>,
       << Chars("E.D."), Chars("Eastern District") >>,
       << Chars("W.D."), Chars("Western District") >>,
       << Chars("N.D."), Chars("Northern District") >>,
       << Chars("S.D."), Chars("Southern District") >>,
       << Chars("C.D."), Chars("Central District") >>,
       << Chars("M.D."), Chars("Middle District") >>,
       << Chars("Sup. Ct."), Chars("Supreme Court") >>,
       << Chars("App."), Chars("Appellate") >>,
       << Chars("App. Div."), Chars("Appellate Division") >>,
       << Chars("Ct. App."), Chars("Court of Appeals") >>,
       << Chars("Super. Ct."), Chars("Superior Court") >> >>

\* court_abbr in COURT_ABBREVIATIONS
IsCourtKey(s) == \E i \in DOMAIN COURT_ABBREVIATIONS : COURT_ABBREVIATIONS[i][1] = s

\* COURT_ABBREVIATIONS[court_abbr]
CourtValue(s) ==
    COURT_ABBREVIATIONS[CHOOSE i \in DOMAIN COURT_ABBREVIATIONS :
                            COURT_ABBREVIATIONS[i][1] = s][2]

\* str.split(): scan from offset i, word being the token under way
RECURSIVE SplitFrom(_, _, _)
SplitFrom(s, i, word) ==
    IF i > Len(s)
    THEN IF word = <<>> THEN <<>> ELSE <<word>>
    ELSE IF IsSpace(s[i])
         THEN IF word = <<>> THEN SplitFrom(s, i + 1, <<>>)
              ELSE <<word>> \o SplitFrom(s, i + 1, <<>>)
         ELSE SplitFrom(s, i + 1, Append(word, s[i]))

Split(s) == SplitFrom(s, 1, <<>>)

\* " ".join(parts)
RECURSIVE JoinSpace(_)
JoinSpace(parts) ==
    IF parts = <<>> THEN <<>>
    ELSE IF Len(parts) = 1 THEN parts[1]
    ELSE parts[1] \o <<" ">> \o JoinSpace(Tail(parts))

\* the loop leaving the loop after the first token it replaced
ExpandFirstPartOnly(tokens) ==
    [i \in DOMAIN tokens |->
        IF IsCourtKey(tokens[i]) /\ \A j \in 1..(i - 1) : ~IsCourtKey(tokens[j])
        THEN CourtValue(tokens[i]) ELSE tokens[i]]

\* the loop over court_abbr.split()
ExpandParts(tokens) ==
    [i \in DOMAIN tokens |->
        IF IsCourtKey(tokens[i]) THEN CourtValue(tokens[i]) ELSE tokens[i]]

\* normalize_court_name without the direct match
NormalizeWithoutDirectMatch(court_abbr) ==
    JoinSpace(ExpandParts(Split(court_abbr)))

normalize_court_name(court_abbr) ==
    IF IsCourtKey(court_abbr) THEN CourtValue(court_abbr)
    ELSE JoinSpace(ExpandParts(Split(court_abbr)))

MaxCourtPieces == 3

CourtPieces ==
    { Chars("9th"), Chars("Cir."), Chars(" "), Chars("\t"), Chars("D."),
      Chars("App."), Chars("Div."), Chars("foo"), Chars("bar"), Chars("U.S."),
      Chars("9th Cir.") }

CourtExamples ==
    { Chars("S. Ct."), Chars(" S. Ct."), Chars("Ct. App."), Chars("App. Div. 2"),
      Chars("E.D. N.D. 2d Cir.") }

InitCourt ==
    /\ input \in Texts(CourtPieces, MaxCourtPieces) \cup CourtExamples
    /\ output = <<>>
    /\ again = <<>>
    /\ pc = "ready"

CallNormalizeCourtName ==
    /\ pc = "ready"
    /\ output' = normalize_court_name(input)
    /\ pc' = "done"
    /\ UNCHANGED <<input, again>>

\* the caller normalizes the name it got back
RecallNormalizeCourtName ==
    /\ pc = "done"
    /\ again' = normalize_court_name(output)
    /\ pc' = "again"
    /\ UNCHANGED <<input, output>>

NextCourt == CallNormalizeCourtName \/ RecallNormalizeCourtName

SpecCourt == InitCourt /\ [][NextCourt]_vars

\* the whitespace-delimited tokens of s as spans <<first, last>>
TokenSpans(s) ==
    {sp \in (1..Len(s)) \X (1..Len(s)) :
        /\ sp[1] <= sp[2]
        /\ \A k \in sp[1]..sp[2] : ~IsSpace(s[k])
        /\ (sp[1] = 1 \/ IsSpace(s[sp[1] - 1]))
        /\ (sp[2] = Len(s) \/ IsSpace(s[sp[2] + 1]))}

\* the whitespace-delimited tokens of s, left to right
TokenList(s) ==
    LET spans == TokenSpans(s)
    IN  [j \in 1..Cardinality(spans) |->
            LET sp == CHOOSE q \in spans :
                          Cardinality({r \in spans : r[1] < q[1]}) = j - 1
            IN  SubSeq(s, sp[1], sp[2])]

\* the tokens written one after the other with one space between neighbours
RECURSIVE SingleSpaced(_)
SingleSpaced(tokens) ==
    IF tokens = <<>> THEN <<>>
    ELSE LET n == Len(tokens)
             front == SingleSpaced(SubSeq(tokens, 1, n - 1))
         IN  IF n = 1 THEN tokens[1] ELSE front \o <<" ">> \o tokens[n]

\* C5: a key of the table gives its value; any other input gives its
\* whitespace-delimited tokens, each replaced by its value when it is a key
\* and kept otherwise, joined by single spaces.  So a multi-word key inside a
\* longer input is not expanded, and an input of single-spaced tokens none of
\* which is a key comes back unchanged.
C5_ExactOrTokenwise ==
    pc = "done" =>
        LET tokens == TokenList(input)
            mapped == [j \in DOMAIN tokens |->
                          IF IsCourtKey(tokens[j]) THEN CourtValue(tokens[j])
                          ELSE tokens[j]]
            plain == \A j \in DOMAIN tokens : ~IsCourtKey(tokens[j])
        IN  /\ IsCourtKey(input) => output = CourtValue(input)
            /\ ~IsCourtKey(input) => output = SingleSpaced(mapped)
            /\ (~IsCourtKey(input) /\ plain) => output = SingleSpaced(tokens)
            /\ (plain /\ input = SingleSpaced(tokens) /\ ~IsCourtKey(input))
                  => output = input
            /\ input = Chars("9th Cir.") => output = Chars("Ninth Circuit")
            /\ input = Chars("foo bar") => output = Chars("foo bar")

\* a longer input that holds a multi-word key and a token that is a key
C5_Witness ==
    /\ pc = "done"
    /\ ~IsCourtKey(input)
    /\ Contains(input, Chars("9th Cir."))
    /\ \E j \in DOMAIN TokenList(input) : IsCourtKey(TokenList(input)[j])
    /\ ~Contains(output, Chars("Ninth Circuit"))
    /\ output # input

\* no key and no token that is a key
KeyFree(s) ==
    /\ ~IsCourtKey(s)
    /\ \A j \in DOMAIN TokenList(s) : ~IsCourtKey(TokenList(s)[j])

\* C10 as stated: normalizing the result again changes nothing, and the
\* token-by-token path never returns a key or a text with a token that is a
\* key.
C10_Idempotent ==
    /\ pc = "again" => again = output
    /\ (pc # "ready" /\ ~IsCourtKey(input)) => KeyFree(output)

\* the input is no key and none of its tokens is one, but its tokens joined
\* by single spaces are one
RespacedKey(s) ==
    /\ ~IsCourtKey(s)
    /\ \A j \in DOMAIN TokenList(s) : ~IsCourtKey(TokenList(s)[j])
    /\ IsCourtKey(SingleSpaced(TokenList(s)))

\* C10 as amended: unless the input is a multi-word key written with other
\* whitespace (no key itself, none of its tokens a key, its tokens joined by
\* single spaces a key), normalizing the result again changes nothing and the
\* token-by-token path returns neither a key nor a text with a token that is
\* a key; for such an input the first call returns the key and the second
\* call its value.
C10_IdempotentUnlessRespacedKey ==
    /\ (pc = "again" /\ ~RespacedKey(input)) => again = output
    /\ (pc # "ready" /\ ~IsCourtKey(input) /\ ~RespacedKey(input))
          => KeyFree(output)
    /\ (pc = "again" /\ RespacedKey(input))
          => (IsCourtKey(output) /\ again = CourtValue(output) /\ again # output)

\* tokens more than one space apart, one of them replaced
C10_Witness ==
    /\ pc = "again"
    /\ ~IsCourtKey(input)
    /\ ~RespacedKey(input)
    /\ input # SingleSpaced(TokenList(input))
    /\ Len(TokenList(input)) >= 2
    /\ \E j \in DOMAIN TokenList(input) : IsCourtKey(TokenList(input)[j])
    /\ again = output

(***************************************************************************)
(* extract_paragraph_numbers                                               *)
(***************************************************************************)

\* text.split('\n'): scan from offset i, line being the line under way
RECURSIVE SplitLinesFrom(_, _, _)
SplitLinesFrom(text, i, line) ==
    IF i > Len(text) THEN <<line>>
    ELSE IF text[i] = "\n"
         THEN <<line>> \o SplitLinesFrom(text, i + 1, <<>>)
         ELSE SplitLinesFrom(text, i + 1, Append(line, text[i]))

SplitLines(text) == SplitLinesFrom(text, 1, <<>>)

\* offset reached from offset i by skipping a maximal run of digits
SkipDigits(s, i) ==
    CHOOSE j \in i..Len(s) :
        /\ \A k \in (i + 1)..j : IsDigit(s[k])
        /\ (j = Len(s) \/ ~IsDigit(s[j + 1]))

\* PARAGRAPH_NUMBER searched for anywhere in the line
ParagraphNumberAnywhere(line) ==
    LET hits == {a \in 0..Len(line) :
                    /\ LiteralAt(line, a, <<"[">>)
                    /\ SkipDigits(line, a + 1) > a + 1
                    /\ LiteralAt(line, SkipDigits(line, a + 1), <<"]">>)}
    IN  IF hits = {} THEN <<>>
        ELSE SubSeq(line, Least(hits) + 2, SkipDigits(line, Least(hits) + 1))

\* PARAGRAPH_NUMBER.match(line): group 1, or <<>> when there is no match
\* ^\s*\[(\d+)\]\s*
PARAGRAPH_NUMBER(line) ==
    LET a == SkipSpaces(line, 0)
    IN  IF LiteralAt(line, a, <<"[">>)
        THEN LET b == SkipDigits(line, a + 1)
             IN  IF b > a + 1 /\ LiteralAt(line, b, <<"]">>)
                 THEN SubSeq(line, a + 2, b)
                 ELSE <<>>
        ELSE <<>>

DigitValue(c) == (CHOOSE i \in DOMAIN Digits : Digits[i] = c) - 1

\* int(digits)
RECURSIVE ParseInt(_)
ParseInt(digits) ==
    IF digits = <<>> THEN 0
    ELSE 10 * ParseInt(SubSeq(digits, 1, Len(digits) - 1))
            + DigitValue(digits[Len(digits)])

\* the loop over the lines from line i on
RECURSIVE CollectNumbers(_, _)
CollectNumbers(lines, i) ==
    IF i > Len(lines) THEN <<>>
    ELSE LET match == PARAGRAPH_NUMBER(lines[i])
         IN  IF match # <<>>
             THEN <<ParseInt(match)>> \o CollectNumbers(lines, i + 1)
             ELSE CollectNumbers(lines, i + 1)

extract_paragraph_numbers(text) == CollectNumbers(SplitLines(text), 1)

MaxParaPieces == 5

ParaPieces ==
    { Chars("[2]"), Chars("[1]"), Chars("[07]"), Chars("\n"), Chars(" "),
      Chars("x"), Chars("["), Chars("3]") }

ParaExamples ==
    { Chars("[1] First\n[2] Second\nNot numbered\n[3] Third"),
      Chars("[12] a\n\t[12] b\n[5]\nsee [4]") }

InitPara ==
    /\ input \in Texts(ParaPieces, MaxParaPieces) \cup ParaExamples
    /\ output = <<>>
    /\ again = <<>>
    /\ pc = "ready"

CallExtractParagraphNumbers ==
    /\ pc = "ready"
    /\ output' = extract_paragraph_numbers(input)
    /\ pc' = "done"
    /\ UNCHANGED <<input, again>>

NextPara == CallExtractParagraphNumbers

SpecPara == InitPara /\ [][NextPara]_vars

\* the positions at which a line of the text starts
LineStarts(text) ==
    {1} \cup {i + 1 : i \in {k \in DOMAIN text : text[k] = "\n"}}

\* <<open, close>>: the line that starts at position p reads optional
\* whitespace, "[" at open, one or more digits, "]" at close
NumberedAt(text, p) ==
    {br \in (p..Len(text)) \X (p..Len(text)) :
        /\ br[1] + 1 < br[2]
        /\ \A k \in p..(br[1] - 1) : IsSpace(text[k]) /\ text[k] # "\n"
        /\ text[br[1]] = "["
        /\ \A k \in (br[1] + 1)..(br[2] - 1) : IsDigit(text[k])
        /\ text[br[2]] = "]"}

RECURSIVE Power10(_)
Power10(n) == IF n = 0 THEN 1 ELSE 10 * Power10(n - 1)

RECURSIVE Sum(_, _)
Sum(f, S) ==
    IF S = {} THEN 0
    ELSE LET x == CHOOSE y \in S : TRUE IN f[x] + Sum(f, S \ {x})

\* the number written by the digits between the brackets
BracketValue(text, br) ==
    LET ds == (br[1] + 1)..(br[2] - 1)
    IN  Sum([k \in ds |-> DigitValue(text[k]) * Power10(br[2] - 1 - k)], ds)

\* C6: the result lists, in line order, the number of every line that starts
\* with optional whitespace, "[", digits and "]", and nothing else: one number
\* a line, duplicates kept, no sorting, other lines and bracketed numbers
\* further into a line skipped.
C6_NumbersOfNumberedLines ==
    pc = "done" =>
        LET kept == {p \in LineStarts(input) : NumberedAt(input, p) # {}}
            nth(j) == CHOOSE p \in kept : Cardinality({q \in kept : q < p}) = j - 1
        IN  /\ Len(output) = Cardinality(kept)
            /\ \A j \in 1..Len(output) :
                  output[j] = BracketValue(input,
                                  CHOOSE br \in NumberedAt(input, nth(j)) : TRUE)
            /\ input = Chars("[1] First\n[2] Second\nNot numbered\n[3] Third")
                  => output = <<1, 2, 3>>

\* a repeated number, numbers out of order, a line without a number and a
\* bracketed number further into a line
C6_Witness ==
    /\ pc = "done"
    /\ \/ /\ Len(output) = 3
          /\ output[1] > output[2]
          /\ output[1] = output[3]
       \/ /\ output = <<12, 12, 5>>
          /\ Contains(input, Chars("see [4]"))

(***************************************************************************)
(* clean_legal_text                                                        *)
(***************************************************************************)

\* re.sub(r'\s+', '', text) from position i on
RECURSIVE DeleteWhitespaceFrom(_, _)
DeleteWhitespaceFrom(text, i) ==
    IF i > Len(text) THEN <<>>
    ELSE IF IsSpace(text[i])
         THEN DeleteWhitespaceFrom(text, SkipSpaces(text, i - 1) + 1)
         ELSE <<text[i]>> \o DeleteWhitespaceFrom(text, i + 1)

DeleteWhitespace(text) == DeleteWhitespaceFrom(text, 1)

\* re.sub(r'\s+', ' ', text) from position i on
RECURSIVE CollapseWhitespaceFrom(_, _)
CollapseWhitespaceFrom(text, i) ==
    IF i > Len(text) THEN <<>>
    ELSE IF IsSpace(text[i])
         THEN <<" ">> \o CollapseWhitespaceFrom(text, SkipSpaces(text, i - 1) + 1)
         ELSE <<text[i]>> \o CollapseWhitespaceFrom(text, i + 1)

\* re.sub(r'\s+', ' ', text)
CollapseWhitespace(text) == CollapseWhitespaceFrom(text, 1)

\* re.sub(r'\bl\b', '1', text) and re.sub(r'\bO\b', '0', text): the pattern
\* \b letter \b matches one character, so no two matches overlap
ReplaceStandalone(text, letter, digit) ==
    [i \in DOMAIN text |->
        IF text[i] = letter /\ WordBoundary(text, i - 1) /\ WordBoundary(text, i)
        THEN digit ELSE text[i]]

\* re.sub('§+', '§', text) from position i on
RECURSIVE CollapseSectionRunsFrom(_, _)
CollapseSectionRunsFrom(text, i) ==
    IF i > Len(text) THEN <<>>
    ELSE IF text[i] = "§" /\ i > 1 /\ text[i - 1] = "§"
         THEN CollapseSectionRunsFrom(text, i + 1)
         ELSE <<text[i]>> \o CollapseSectionRunsFrom(text, i + 1)

CollapseSectionRuns(text) == CollapseSectionRunsFrom(text, 1)

\* re.sub('§§', '§', text) from position i on: matches are taken left to
\* right and the search resumes after each match
RECURSIVE CollapseSectionsFrom(_, _)
CollapseSectionsFrom(text, i) ==
    IF i > Len(text) THEN <<>>
    ELSE IF LiteralAt(text, i - 1, <<"§", "§">>)
         THEN <<"§">> \o CollapseSectionsFrom(text, i + 2)
         ELSE <<text[i]>> \o CollapseSectionsFrom(text, i + 1)

\* re.sub('§§', '§', text)
CollapseSections(text) == CollapseSectionsFrom(text, 1)

\* re.sub(r'\s+' mark, mark, text) from position i on, for mark "." or ","
RECURSIVE RemoveSpaceBeforeFrom(_, _, _)
RemoveSpaceBeforeFrom(text, mark, i) ==
    IF i > Len(text) THEN <<>>
    ELSE IF IsSpace(text[i]) /\ LiteralAt(text, SkipSpaces(text, i - 1), <<mark>>)
         THEN <<mark>> \o RemoveSpaceBeforeFrom(text, mark, SkipSpaces(text, i - 1) + 2)
         ELSE <<text[i]>> \o RemoveSpaceBeforeFrom(text, mark, i + 1)

\* re.sub(r'\s+\.', '.', text) and re.sub(r'\s+,', ',', text)
RemoveSpaceBefore(text, mark) == RemoveSpaceBeforeFrom(text, mark, 1)

\* the replacements, in the order of the dict
ApplyReplacements(text) ==
    RemoveSpaceBefore(
        RemoveSpaceBefore(
            CollapseSections(
                ReplaceStandalone(ReplaceStandalone(text, "l", "1"), "O", "0")),
            "."),
        ",")

\* clean_legal_text that returns text in place of text.strip()
CleanWithoutStrip(text) == ApplyReplacements(CollapseWhitespace(text))

clean_legal_text(text) == Strip(ApplyReplacements(CollapseWhitespace(text)))

MaxCleanPieces == 5

CleanPieces ==
    { Chars("§"), Chars(" "), Chars("\t"), Chars("."), Chars(","),
      Chars("l"), Chars("O"), Chars("a") }

CleanExamples ==
    { Chars("too   much   space ."), Chars("§§§§"), Chars("§§§"),
      Chars(" See §§ l , . O\n\nal lO  "), Chars("§§§ a §§§§§ §") }

InitClean ==
    /\ input \in Texts(CleanPieces, MaxCleanPieces) \cup CleanExamples
    /\ output = <<>>
    /\ again = <<>>
    /\ pc = "ready"

CallCleanLegalText ==
    /\ pc = "ready"
    /\ output' = clean_legal_text(input)
    /\ pc' = "done"
    /\ UNCHANGED <<input, again>>

\* the caller cleans the text it got back
RecallCleanLegalText ==
    /\ pc = "done"
    /\ again' = clean_legal_text(output)
    /\ pc' = "again"
    /\ UNCHANGED <<input, output>>

NextClean == CallCleanLegalText \/ RecallCleanLegalText

SpecClean == InitClean /\ [][NextClean]_vars

\* the maximal runs of section symbols of s, as spans <<first, last>>
SectionSpans(s) ==
    {sp \in (1..Len(s)) \X (1..Len(s)) :
        /\ sp[1] <= sp[2]
        /\ \A k \in sp[1]..sp[2] : s[k] = "§"
        /\ (sp[1] = 1 \/ s[sp[1] - 1] # "§")
        /\ (sp[2] = Len(s) \/ s[sp[2] + 1] # "§")}

\* the lengths of the maximal runs of section symbols of s, left to right
SectionRuns(s) ==
    LET spans == SectionSpans(s)
    IN  [j \in 1..Cardinality(spans) |->
            LET sp == CHOOSE q \in spans :
                          Cardinality({r \in spans : r[1] < q[1]}) = j - 1
            IN  sp[2] - sp[1] + 1]

\* C7: on an input without three section symbols in a row, cleaning the
\* cleaned text changes nothing.
C7_IdempotentWithoutTripleSection ==
    (pc = "again" /\ \A j \in DOMAIN SectionRuns(input) : SectionRuns(input)[j] < 3)
        => again = output

\* an input the first call rewrites by every rule, a doubled section symbol
\* included
C7_Witness ==
    /\ pc = "again"
    /\ \A j \in DOMAIN SectionRuns(input) : SectionRuns(input)[j] < 3
    /\ \E j \in DOMAIN SectionRuns(input) : SectionRuns(input)[j] = 2
    /\ \E i \in 1..(Len(input) - 1) : IsSpace(input[i]) /\ input[i + 1] \in {".", ","}
    /\ Contains(output, <<"1">>)
    /\ again = output
    /\ output # input

\* C8: the rule for doubled section symbols makes one pass: a run of k
\* section symbols (whitespace keeps runs apart, so the runs of the input are
\* those of the whitespace-collapsed text) leaves a run of ceil(k/2), and
\* "§§§§" gives "§§".
C8_SectionRunsHalved ==
    pc = "done" =>
        /\ Len(SectionRuns(output)) = Len(SectionRuns(input))
        /\ \A j \in DOMAIN SectionRuns(output) :
              SectionRuns(output)[j] = (SectionRuns(input)[j] + 1) \div 2
        /\ SectionRuns(CollapseWhitespace(input)) = SectionRuns(input)
        /\ input = Chars("§§§§") => output = Chars("§§")

\* a run of three or more that is left longer than one
C8_Witness ==
    /\ pc = "done"
    /\ \E j \in DOMAIN SectionRuns(input) :
          SectionRuns(input)[j] >= 3 /\ SectionRuns(output)[j] = 2
    /\ Len(SectionRuns(input)) >= 2

\* C9: the result has no whitespace at either end, no whitespace character
\* but the space, no two spaces in a row, and no period or comma right after
\* whitespace; "too   much   space ." gives "too much space.".
C9_CleanShape ==
    pc = "done" =>
        /\ output # <<>> => (~IsSpace(output[1]) /\ ~IsSpace(output[Len(output)]))
        /\ \A i \in DOMAIN output : IsSpace(output[i]) => output[i] = " "
        /\ \A i \in 1..(Len(output) - 1) :
              /\ ~(output[i] = " " /\ output[i + 1] = " ")
              /\ ~(IsSpace(output[i]) /\ output[i + 1] \in {".", ","})
        /\ input = Chars("too   much   space .") => output = Chars("too much space.")

\* whitespace at both ends, a run of whitespace, and whitespace before a
\* comma that stands before whitespace and a period
C9_Witness ==
    /\ pc = "done"
    /\ input # <<>>
    /\ IsSpace(input[1])
    /\ IsSpace(input[Len(input)])
    /\ \E i \in 1..(Len(input) - 3) :
          /\ IsSpace(input[i])
          /\ input[i + 1] = ","
          /\ IsSpace(input[i + 2])
          /\ input[i + 3] = "."
    /\ \E i \in 1..(Len(input) - 1) : IsSpace(input[i]) /\ IsSpace(input[i + 1])
    /\ Contains(output, <<",", ".">>)

=============================================================================
